---- MODULE Spec2Model ----
(***************************************************************************)
(* Model of the Hetzner node-driver machine-config form:                   *)
(*   - HetznerCloud (hcloud.ts): paginated catalog fetches and their       *)
(*     per-kind transforms;                                                *)
(*   - the machine-config component (script setup): the two-way sync       *)
(*     between props.value (external record) and serverConfiguration,      *)
(*     the validation watcher, the location watcher and onMounted,         *)
(*     scheduled as Vue schedules them (a FIFO queue of pre-flush watcher  *)
(*     jobs, and nextTick continuations that resume after the flush).      *)
(*                                                                         *)
(* JavaScript values are tagged records. A string is a sequence of pieces:  *)
(* one character each wherever the code looks into the string (toString,   *)
(* Number, split, localeCompare, toUpperCase), whole words in the fixed     *)
(* texts of labels that the code only concatenates.                        *)
(***************************************************************************)
EXTENDS Integers, Sequences, FiniteSets, TLC

VARIABLES
    \* ---- the component (script setup) ----
    value,                \* props.value, the external record
    serverConfiguration,  \* reactive NodeConfiguration
    isValid,              \* ref isValid
    syncingToProps,       \* ref: outbound guard
    syncingFromProps,     \* ref: inbound guard
    loadingData,          \* ref loadingData
    initialLoad,          \* ref initialLoad
    hcloud,               \* ref hcloud: TRUE when a HetznerCloud exists
    hetznerOptions,       \* ref hetznerOptions: the option list of each kind
    emitted,              \* last payload of emit('validationChanged'), or "none"
    \* ---- Vue's scheduler ----
    queue,                \* pending watcher jobs, FIFO, no duplicates
    flushing,             \* a flush (flushJobs) is in progress
    conts,                \* functions suspended at "await nextTick()"
    locOld,               \* oldValue of the serverLocation watcher
    fetches,              \* getServerTypes calls in flight (location watcher)
    initFetch,            \* onMounted's Promise.all is pending
    initCalls,            \* the seven calls inside Promise.all: kind -> state of the call
    pc,                   \* "setup" | "run" (component), "codec" | "fetch" otherwise
    \* ---- history of the run (not program state) ----
    hist,
    \* ---- one HetznerCloud operation against a transport ----
    fImpl, fKind, fLoc, page, acc, served, reqLog, fPc, fResult

vars == << value, serverConfiguration, isValid, syncingToProps, syncingFromProps,
           loadingData, initialLoad, hcloud, hetznerOptions, emitted,
           queue, flushing, conts, locOld, fetches, initFetch, initCalls, pc, hist,
           fImpl, fKind, fLoc, page, acc, served, reqLog, fPc, fResult >>

compVars == << value, serverConfiguration, isValid, syncingToProps, syncingFromProps,
               loadingData, initialLoad, hcloud, hetznerOptions, emitted,
               queue, flushing, conts, locOld, fetches, initFetch, initCalls, hist >>

fetchVars == << fImpl, fKind, fLoc, page, acc, served, reqLog, fPc, fResult >>

-----------------------------------------------------------------------------
(* Bounds of the model *)

MaxLabelLen == 2      \* longest label key / value, in characters
MaxPages == 3         \* most pages a transport serves
MaxExternal == 1      \* changes of props.value by the host in one run
MaxEdits == 2         \* user edits in one run

-----------------------------------------------------------------------------
(* JavaScript values *)

Undefined == [t |-> "undefined"]
Null == [t |-> "null"]
NaN == [t |-> "NaN"]
Num(n) == [t |-> "number", n |-> n]
Str(s) == [t |-> "string", s |-> s]
Bool(b) == [t |-> "boolean", b |-> b]
Arr(a) == [t |-> "array", a |-> a]
Obj(e) == [t |-> "object", e |-> e]   \* e: sequence of <<key, value>>, keys unique

IsNullish(v) == v.t \in {"undefined", "null"}

\* JavaScript truthiness (ToBoolean)
Truthy(v) ==
    CASE v.t = "undefined" -> FALSE
      [] v.t = "null" -> FALSE
      [] v.t = "NaN" -> FALSE
      [] v.t = "number" -> v.n # 0
      [] v.t = "string" -> v.s # << >>
      [] v.t = "boolean" -> v.b
      [] OTHER -> TRUE

Digits == << "0", "1", "2", "3", "4", "5", "6", "7", "8", "9" >>

IsDigit(c) == \E i \in 1..10 : Digits[i] = c

DigitVal(c) == (CHOOSE i \in 1..10 : Digits[i] = c) - 1

RECURSIVE NumberToString(_)
\* Number.prototype.toString() of a non-negative integer
NumberToString(n) ==
    IF n < 10 THEN << Digits[n + 1] >>
    ELSE NumberToString(n \div 10) \o << Digits[(n % 10) + 1] >>

RECURSIVE DigitsValue(_)
DigitsValue(s) ==
    IF s = << >> THEN 0
    ELSE 10 * DigitsValue(SubSeq(s, 1, Len(s) - 1)) + DigitVal(s[Len(s)])

\* Number(s) of a string: "" is 0, a run of decimal digits is its value,
\* anything else over the model's alphabet is NaN
StringToNumber(s) ==
    IF \A i \in 1..Len(s) : IsDigit(s[i]) THEN Num(DigitsValue(s)) ELSE NaN

\* Number(v)
ToNumber(v) ==
    CASE v.t = "string" -> StringToNumber(v.s)
      [] v.t = "number" -> v
      [] v.t = "boolean" -> IF v.b THEN Num(1) ELSE Num(0)
      [] v.t = "null" -> Num(0)
      [] OTHER -> NaN

\* String(v), as a template literal converts v
JsString(v) ==
    CASE v.t = "string" -> v.s
      [] v.t = "number" -> NumberToString(v.n)
      [] v.t = "NaN" -> << "N", "a", "N" >>
      [] v.t = "boolean" -> IF v.b THEN << "t", "r", "u", "e" >>
                                   ELSE << "f", "a", "l", "s", "e" >>
      [] v.t = "null" -> << "n", "u", "l", "l" >>
      [] OTHER -> << "u", "n", "d", "e", "f", "i", "n", "e", "d" >>

\* v?.toString()
OptToString(v) == IF IsNullish(v) THEN Undefined ELSE Str(JsString(v))

\* typeof v === 'string' ? Number(v) : v
NumberIfString(v) == IF v.t = "string" THEN StringToNumber(v.s) ELSE v

MapSeq(Op(_), s) == [i \in 1..Len(s) |-> Op(s[i])]

-----------------------------------------------------------------------------
(* Outbound sync: the body of updateValue, guarded by isValid *)

\* ([key, value]) => `${key}=${value}`
LabelString(entry) == Str(entry[1] \o << "=" >> \o JsString(entry[2]))

\* (mutant of PublicFlags) the per-protocol flags are copied whatever
\* disablePublicNetwork is
PublicFlagsCopied(cfg) ==
    [disablePublic |-> Bool(Truthy(cfg.disablePublicNetwork)),
     disablePublicIpv4 |-> cfg.disablePublicIpv4,
     disablePublicIpv6 |-> cfg.disablePublicIpv6]

\* serverConfiguration.disablePublicNetwork decides the three public flags
PublicFlags(cfg) ==
    IF Truthy(cfg.disablePublicNetwork)
    THEN [disablePublic |-> Bool(TRUE),
          disablePublicIpv4 |-> Bool(FALSE),
          disablePublicIpv6 |-> Bool(FALSE)]
    ELSE [disablePublic |-> Bool(FALSE),
          disablePublicIpv4 |-> cfg.disablePublicIpv4,
          disablePublicIpv6 |-> cfg.disablePublicIpv6]

\* ids?.map((id) => id?.toString()) || []
IdStrings(ids) ==
    IF IsNullish(ids) THEN Arr(<< >>) ELSE Arr(MapSeq(OptToString, ids.a))

\* x !== undefined && x !== null ? x.toString() : undefined
IdString(x) == IF IsNullish(x) THEN Undefined ELSE Str(JsString(x))

\* the record props.value holds after the assignments of updateValue
updateValue(cfg, val) ==
    [val EXCEPT
        !.serverType = OptToString(cfg.serverType),
        !.serverLocation = OptToString(cfg.serverLocation),
        !.imageId = OptToString(cfg.serverImage),
        !.placementGroup = IdString(cfg.placementGroupId),
        !.networks = IdStrings(cfg.networkIds),
        !.firewalls = IdStrings(cfg.firewallIds),
        !.existingKeyId = IdString(cfg.sshKeyId),
        !.usePrivateNetwork = cfg.usePrivateNetwork,
        !.disablePublic = PublicFlags(cfg).disablePublic,
        !.disablePublicIpv4 = PublicFlags(cfg).disablePublicIpv4,
        !.disablePublicIpv6 = PublicFlags(cfg).disablePublicIpv6,
        !.additionalUserData = cfg.additionalUserData,
        !.userDataFromFile = Bool(TRUE),
        !.serverLabel = IF Truthy(cfg.serverLabels)
                        THEN Arr(MapSeq(LabelString, cfg.serverLabels.e))
                        ELSE Arr(<< >>)]

-----------------------------------------------------------------------------
(* Inbound sync: the body of the props.value watcher *)

RECURSIVE Split(_, _)
\* s.split(sep): the pieces of s between the occurrences of the character sep
Split(s, sep) ==
    IF \A i \in 1..Len(s) : s[i] # sep THEN << s >>
    ELSE LET k == CHOOSE i \in 1..Len(s) :
                      s[i] = sep /\ \A j \in 1..(i - 1) : s[j] # sep
         IN << SubSeq(s, 1, k - 1) >> \o Split(SubSeq(s, k + 1, Len(s)), sep)

\* one entry for Object.fromEntries out of label.split('='): the first piece
\* is the key, the second (undefined when there is none) the value
LabelEntry(label) ==
    LET parts == Split(label.s, "=")
    IN << parts[1], IF Len(parts) >= 2 THEN Str(parts[2]) ELSE Undefined >>

RECURSIVE FromEntries(_)
\* Object.fromEntries: a later entry of the same key replaces the value and
\* keeps the key's place
FromEntries(entries) ==
    IF entries = << >> THEN << >>
    ELSE LET init == FromEntries(SubSeq(entries, 1, Len(entries) - 1))
             last == entries[Len(entries)]
         IN IF \E i \in 1..Len(init) : init[i][1] = last[1]
            THEN [i \in 1..Len(init) |->
                     IF init[i][1] = last[1] THEN last ELSE init[i]]
            ELSE Append(init, last)

\* (newValue.serverLabel || []).map(label => label.split('=')) throws a
\* TypeError when serverLabel is truthy and no array, or holds a non-string
LabelsThrow(val) ==
    /\ Truthy(val.serverLabel)
    /\ \/ val.serverLabel.t # "array"
       \/ \E i \in 1..Len(val.serverLabel.a) : val.serverLabel.a[i].t # "string"

\* x !== undefined && x !== null ? x.toString() : undefined
DecodeString(x) == IF IsNullish(x) THEN Undefined ELSE Str(JsString(x))

\* x !== undefined && x !== null ? (typeof x === 'string' ? Number(x) : x) : undefined
DecodeId(x) == IF IsNullish(x) THEN Undefined ELSE NumberIfString(x)

\* Array.isArray(x) ? x.map(id => typeof id === 'string' ? Number(id) : id) : []
DecodeIds(x) ==
    IF x.t = "array" THEN Arr(MapSeq(NumberIfString, x.a)) ELSE Arr(<< >>)

\* x !== undefined && x !== null ? Number(x) : undefined
DecodeKeyId(x) == IF IsNullish(x) THEN Undefined ELSE ToNumber(x)

DecodeLabels(x) ==
    Obj(FromEntries(MapSeq(LabelEntry, IF Truthy(x) THEN x.a ELSE << >>)))

\* serverConfiguration after the assignments of the watcher; the assignment
\* of serverLabels is the last one and is not made when its right side throws
fromProps(cfg, val) ==
    [cfg EXCEPT
        !.serverType = DecodeString(val.serverType),
        !.serverLocation = DecodeString(val.serverLocation),
        !.serverImage = DecodeId(val.imageId),
        !.placementGroupId = DecodeId(val.placementGroup),
        !.networkIds = DecodeIds(val.networks),
        !.firewallIds = DecodeIds(val.firewalls),
        !.sshKeyId = DecodeKeyId(val.existingKeyId),
        !.usePrivateNetwork = val.usePrivateNetwork,
        !.disablePublicNetwork = val.disablePublic,
        !.disablePublicIpv4 = val.disablePublicIpv4,
        !.disablePublicIpv6 = val.disablePublicIpv6,
        !.additionalUserData = IF Truthy(val.additionalUserData)
                               THEN val.additionalUserData ELSE Str(<< >>),
        !.serverLabels = IF LabelsThrow(val) THEN cfg.serverLabels
                         ELSE DecodeLabels(val.serverLabel)]

-----------------------------------------------------------------------------
(* Validation: the body of the serverConfiguration watcher up to the emit *)

\* (mutant of Validate) the rule on the public-network switches left out
ValidateWithoutPublicRule(cfg) ==
    /\ ~(\/ ~Truthy(cfg.serverImage)
         \/ ~Truthy(cfg.serverType)
         \/ ~Truthy(cfg.serverLocation))
    /\ ~(/\ Truthy(cfg.usePrivateNetwork)
         /\ ~(cfg.networkIds.t = "array" /\ Len(cfg.networkIds.a) > 0))

\* (mutant of Validate) the rule on usePrivateNetwork and networkIds left out
ValidateWithoutNetworkRule(cfg) ==
    /\ ~(\/ ~Truthy(cfg.serverImage)
         \/ ~Truthy(cfg.serverType)
         \/ ~Truthy(cfg.serverLocation))
    /\ ~(/\ \/ Truthy(cfg.disablePublicNetwork)
            \/ Truthy(cfg.disablePublicIpv4)
            \/ Truthy(cfg.disablePublicIpv6)
         /\ ~Truthy(cfg.usePrivateNetwork))

Validate(cfg) ==
    /\ ~(\/ ~Truthy(cfg.serverImage)
         \/ ~Truthy(cfg.serverType)
         \/ ~Truthy(cfg.serverLocation))
    /\ ~(/\ \/ Truthy(cfg.disablePublicNetwork)
            \/ Truthy(cfg.disablePublicIpv4)
            \/ Truthy(cfg.disablePublicIpv6)
         /\ ~Truthy(cfg.usePrivateNetwork))
    /\ ~(/\ Truthy(cfg.usePrivateNetwork)
         /\ ~(cfg.networkIds.t = "array" /\ Len(cfg.networkIds.a) > 0))

-----------------------------------------------------------------------------
(* Strings of the model *)

cx11 == << "c", "x", "1", "1" >>        \* a shared-CPU server type
ccx13 == << "c", "c", "x", "1", "3" >>  \* a dedicated-CPU server type
fsn1 == << "f", "s", "n", "1" >>        \* a location
ash == << "a", "s", "h" >>              \* a location
yaml == << "#", "c" >>                  \* some user data

\* all strings of at most n characters over the alphabet
StringsUpTo(alphabet, n) == UNION { [1..k -> alphabet] : k \in 0..n }

\* label keys and values: '=' is a character a label may hold
LabelChars == { "a", "=" }
LabelValues == StringsUpTo(LabelChars, MaxLabelLen)
LabelKeys == LabelValues \ { << >> }

\* the record of a ServerConfiguration as the component declares it
EmptyConfiguration ==
    [disablePublicNetwork |-> Bool(FALSE),
     disablePublicIpv4 |-> Bool(FALSE),
     disablePublicIpv6 |-> Bool(FALSE),
     usePrivateNetwork |-> Bool(FALSE),
     sshKeyId |-> Undefined,
     firewallIds |-> Arr(<< >>),
     networkIds |-> Arr(<< >>),
     placementGroupId |-> Undefined,
     serverImage |-> Undefined,
     serverType |-> Undefined,
     serverLocation |-> Undefined,
     additionalUserData |-> Undefined,
     serverLabels |-> Obj(<< >>)]

\* hetznerOptions as the component creates it
EmptyOptions ==
    [locations |-> << >>, serverTypes |-> << >>, serverImages |-> << >>,
     sshKeys |-> << >>, firewalls |-> << >>, networks |-> << >>,
     placementGroups |-> << >>]

\* an external record none of whose fields is present
EmptyRecord ==
    [serverType |-> Undefined, serverLocation |-> Undefined, imageId |-> Undefined,
     placementGroup |-> Undefined, networks |-> Undefined, firewalls |-> Undefined,
     existingKeyId |-> Undefined, usePrivateNetwork |-> Undefined,
     disablePublic |-> Undefined, disablePublicIpv4 |-> Undefined,
     disablePublicIpv6 |-> Undefined, additionalUserData |-> Undefined,
     userDataFromFile |-> Undefined, serverLabel |-> Undefined]

-----------------------------------------------------------------------------
(* SpecCodec: updateValue and the props.value watcher as functions.          *)
(* A typed ServerConfiguration is drawn, encoded into a prior external       *)
(* record when it is valid, and decoded again.                               *)

\* optional fields of a ServerConfiguration: sshKeyId, firewallIds,
\* placementGroupId, additionalUserData
CodecOptionals ==
    { << Undefined, << >>, Undefined, << >> >>,
      << Num(3), << Num(4) >>, Num(7), yaml >>,
      << Num(0), << Num(4), Num(30) >>, Undefined, yaml >> }

\* the typed ServerConfigurations the round trip is tried on
CodecConfigurations ==
    { [disablePublicNetwork |-> Bool(f[1]),
       disablePublicIpv4 |-> Bool(f[2]),
       disablePublicIpv6 |-> Bool(f[3]),
       usePrivateNetwork |-> Bool(f[4]),
       sshKeyId |-> opt[1],
       firewallIds |-> Arr(opt[2]),
       networkIds |-> Arr(net),
       placementGroupId |-> opt[3],
       serverImage |-> img,
       serverType |-> Str(cx11),
       serverLocation |-> Str(fsn1),
       additionalUserData |-> Str(opt[4]),
       serverLabels |-> Obj(lab)] :
         f \in [1..4 -> BOOLEAN],
         opt \in CodecOptionals,
         net \in { << >>, << Num(1) >>, << Num(12), Num(1) >> },
         img \in { Undefined, Num(120) },
         lab \in { << >> } \cup { << << k, Str(v) >> >> : k \in LabelKeys, v \in LabelValues } }

\* the external records the encoding is written into
CodecRecords ==
    { [EmptyRecord EXCEPT !.userDataFromFile = u, !.disablePublicIpv4 = Bool(TRUE)] :
        u \in { Undefined, Bool(FALSE), Bool(TRUE) } }

CodecInit ==
    /\ pc = "codec"
    /\ serverConfiguration \in CodecConfigurations
    /\ value \in CodecRecords
    /\ hist = [orig |-> serverConfiguration, op |-> "none"]
    /\ isValid = Validate(serverConfiguration)
    /\ syncingToProps = FALSE /\ syncingFromProps = FALSE
    /\ loadingData = FALSE /\ initialLoad = FALSE /\ hcloud = FALSE
    /\ hetznerOptions = EmptyOptions /\ emitted = "none"
    /\ queue = << >> /\ flushing = FALSE /\ conts = << >>
    /\ locOld = Undefined /\ fetches = << >> /\ initFetch = FALSE
    /\ initCalls = << >>
    /\ fImpl = "none" /\ fKind = "none" /\ fLoc = Undefined /\ page = 0
    /\ acc = << >> /\ served = << >> /\ reqLog = << >> /\ fPc = "none"
    /\ fResult = << >>

\* updateValue(): "if (isValid.value) { ... }"
CodecOutbound ==
    /\ pc = "codec" /\ hist.op = "none"
    /\ isValid
    /\ value' = updateValue(serverConfiguration, value)
    /\ hist' = [hist EXCEPT !.op = "updateValue"]
    /\ UNCHANGED << serverConfiguration, isValid, syncingToProps, syncingFromProps,
                    loadingData, initialLoad, hcloud, hetznerOptions, emitted,
                    queue, flushing, conts, locOld, fetches, initFetch, initCalls, pc >>
    /\ UNCHANGED fetchVars

\* the props.value watcher on the record updateValue wrote
CodecInbound ==
    /\ pc = "codec" /\ hist.op = "updateValue"
    /\ serverConfiguration' = fromProps(serverConfiguration, value)
    /\ hist' = [hist EXCEPT !.op = "watch"]
    /\ UNCHANGED << value, isValid, syncingToProps, syncingFromProps,
                    loadingData, initialLoad, hcloud, hetznerOptions, emitted,
                    queue, flushing, conts, locOld, fetches, initFetch, initCalls, pc >>
    /\ UNCHANGED fetchVars

CodecNext == CodecOutbound \/ CodecInbound

SpecCodec == CodecInit /\ [][CodecNext]_vars

\* C3 (as claimed): a valid configuration that was encoded and decoded again
\* equals the original field for field, and the record says userDataFromFile
C3_RoundTrip ==
    (pc = "codec" /\ hist.op = "watch") =>
        /\ serverConfiguration = hist.orig
        /\ value.userDataFromFile = Bool(TRUE)

\* C5: after an outbound sync with disablePublicNetwork set the record holds
\* disablePublic = true and both per-protocol flags false; with it unset the
\* record holds disablePublic = false and the internal per-protocol flags
C5_DisablePublicPrecedence ==
    (pc = "codec" /\ hist.op = "updateValue") =>
        IF hist.orig.disablePublicNetwork = Bool(TRUE)
        THEN /\ value.disablePublic = Bool(TRUE)
             /\ value.disablePublicIpv4 = Bool(FALSE)
             /\ value.disablePublicIpv6 = Bool(FALSE)
        ELSE /\ value.disablePublic = Bool(FALSE)
             /\ value.disablePublicIpv4 = hist.orig.disablePublicIpv4
             /\ value.disablePublicIpv6 = hist.orig.disablePublicIpv6

\* C5 witness: an outbound sync ran with all three internal flags set
C5_Witness ==
    /\ pc = "codec" /\ hist.op = "updateValue"
    /\ hist.orig.disablePublicNetwork = Bool(TRUE)
    /\ hist.orig.disablePublicIpv4 = Bool(TRUE)
    /\ hist.orig.disablePublicIpv6 = Bool(TRUE)
    /\ value.disablePublicIpv4 = Bool(FALSE)

-----------------------------------------------------------------------------
(* HetznerCloud (hcloud.ts): strings, ordering and labels *)

Lower == << "a", "b", "c", "d", "e", "f", "g", "h", "i", "j", "k", "l", "m",
            "n", "o", "p", "q", "r", "s", "t", "u", "v", "w", "x", "y", "z" >>
Upper == << "A", "B", "C", "D", "E", "F", "G", "H", "I", "J", "K", "L", "M",
            "N", "O", "P", "Q", "R", "S", "T", "U", "V", "W", "X", "Y", "Z" >>

\* the order localeCompare gives the characters of the names of the model
\* ('-', decimal digits, then lower-case letters)
Collation == << "-" >> \o Digits \o Lower

CharRank(c) ==
    IF \E i \in 1..Len(Collation) : Collation[i] = c
    THEN CHOOSE i \in 1..Len(Collation) : Collation[i] = c
    ELSE 0

RECURSIVE localeCompare(_, _)
\* a.localeCompare(b): negative, zero or positive
localeCompare(a, b) ==
    IF a = << >> THEN (IF b = << >> THEN 0 ELSE -1)
    ELSE IF b = << >> THEN 1
    ELSE IF CharRank(a[1]) # CharRank(b[1]) THEN CharRank(a[1]) - CharRank(b[1])
    ELSE localeCompare(Tail(a), Tail(b))

\* String.prototype.toUpperCase
UpperChar(c) ==
    IF \E i \in 1..26 : Lower[i] = c
    THEN Upper[CHOOSE i \in 1..26 : Lower[i] = c]
    ELSE c

toUpperCase(s) == MapSeq(UpperChar, s)

RECURSIVE Concat(_)
\* the members of a sequence of sequences, one after the other
Concat(ss) == IF ss = << >> THEN << >> ELSE Concat(SubSeq(ss, 1, Len(ss) - 1)) \o ss[Len(ss)]

\* getCountryName: countries[countryCode] || countryCode
getCountryName(countryCode) ==
    CASE countryCode = << "D", "E" >> -> << "G", "e", "r", "m", "a", "n", "y" >>
      [] countryCode = << "F", "I" >> -> << "F", "i", "n", "l", "a", "n", "d" >>
      [] countryCode = << "U", "S" >> -> << "U", "S", "A" >>
      [] countryCode = << "S", "G" >> -> << "S", "i", "n", "g", "a", "p", "o", "r", "e" >>
      [] countryCode = << "A", "U" >> -> << "A", "u", "s", "t", "r", "a", "l", "i", "a" >>
      [] OTHER -> countryCode

\* (mutant of CompareLocations) the network zone is not looked at
CompareLocationsByName(a, b) == localeCompare(a.name, b.name)

\* the comparator of getLocations: network_zone, then name
CompareLocations(a, b) ==
    IF a.network_zone # b.network_zone
    THEN localeCompare(a.network_zone, b.network_zone)
    ELSE localeCompare(a.name, b.name)

\* the comparator of getImages and getServerTypes: name
CompareNames(a, b) == localeCompare(a.name, b.name)

\* the two comparators the operations sort with
Compare(by, a, b) ==
    IF by = "zone" THEN CompareLocations(a, b) ELSE CompareNames(a, b)

\* x put into the sorted sequence s behind the last element it does not precede
Insert(s, x, by) ==
    LET behind == { j \in 1..Len(s) : Compare(by, x, s[j]) >= 0 }
        p == IF behind = { } THEN 0 ELSE CHOOSE j \in behind : \A k \in behind : k <= j
    IN SubSeq(s, 1, p) \o << x >> \o SubSeq(s, p + 1, Len(s))

\* Array.prototype.sort (stable) with the comparator named by
SortBy(s, by) ==
    LET sorted[k \in 0..Len(s)] ==
            IF k = 0 THEN << >> ELSE Insert(sorted[k - 1], s[k], by)
    IN sorted[Len(s)]

LocationOption(location) ==
    [value |-> Str(location.name),
     label |-> Str(toUpperCase(location.name) \o << " ", "-", " " >> \o location.city
                   \o << ",", " " >> \o getCountryName(location.country)),
     city |-> Str(location.city),
     country |-> Str(getCountryName(location.country)),
     networkZone |-> Str(location.network_zone)]

\* getLocations after the accumulation
LocationOptions(locations) ==
    IF Len(locations) = 0 THEN << >>
    ELSE MapSeq(LocationOption, SortBy(locations, "zone"))

ImageOption(image) ==
    [value |-> Num(image.id),
     label |-> Str(image.name \o << " ", "(" >> \o image.architecture
                   \o << ")", " ", "-", " " >> \o image.description)]

\* getImages after the accumulation
ImageOptions(images) == MapSeq(ImageOption, SortBy(images, "name"))

NamedOption(item) == [value |-> Num(item.id), label |-> Str(item.name)]

\* getPlacementGroups, getFirewalls, getSshKeys after the accumulation
NamedOptions(items) == IF Len(items) = 0 THEN << >> ELSE MapSeq(NamedOption, items)

NetworkOption(network) ==
    [value |-> Num(network.id),
     label |-> Str(network.name \o << " ", "(" >> \o network.ip_range \o << ")" >>)]

\* getNetworks after the accumulation
NetworkOptions(networks) ==
    IF Len(networks) = 0 THEN << >> ELSE MapSeq(NetworkOption, networks)

-----------------------------------------------------------------------------
(* HetznerCloud.getServerTypes after the accumulation *)

\* type.prices.some((price) => price.location === location)
PricedIn(type, location) ==
    \E i \in 1..Len(type.prices) : Str(type.prices[i].location) = location

\* Number(gross).toFixed(2), gross in ten-thousandths of a euro: cents
\* rounded half up, then "<euros>.<two digits>"
toFixed2(gross) ==
    LET cents == (gross + 50) \div 100
    IN NumberToString(cents \div 100) \o << "." >>
       \o << Digits[((cents % 100) \div 10) + 1], Digits[(cents % 10) + 1] >>

\* formatServerType's priceLabel
PriceLabel(type, location) ==
    IF Truthy(location) /\ PricedIn(type, location)
    THEN LET i == CHOOSE k \in 1..Len(type.prices) :
                      /\ Str(type.prices[k].location) = location
                      /\ \A j \in 1..(k - 1) : Str(type.prices[j].location) # location
         IN << "EUR" >> \o toFixed2(type.prices[i].gross) \o << "/", "m", "o", ",", " " >>
    ELSE << >>

formatServerType(type, location) ==
    [value |-> Str(type.name),
     label |-> Str(type.name \o << " ", "(" >> \o PriceLabel(type, location)
                   \o type.architecture \o << ", " >> \o NumberToString(type.cores)
                   \o << " vCPU, " >> \o NumberToString(type.memory)
                   \o << " GB RAM, " >> \o NumberToString(type.disk)
                   \o << " GB SSD)" >>)]

\* the two group headers (the rules of the labels are written with '-',
\* the euro sign of the price label as EUR)
dedicatedHeader ==
    [label |-> Str(<< "--- DEDICATED CPU SERVERS ---" >>),
     value |-> Str(<< "d", "e", "d", "i", "c", "a", "t", "e", "d", "-",
                      "h", "e", "a", "d", "e", "r" >>),
     disabled |-> TRUE,
     kind |-> "group"]

sharedHeader ==
    [label |-> Str(<< "--- SHARED CPU SERVERS ---" >>),
     value |-> Str(<< "s", "h", "a", "r", "e", "d", "-", "h", "e", "a", "d", "e", "r" >>),
     disabled |-> TRUE,
     kind |-> "group"]

NotDeprecated(type) == ~type.deprecated
IsShared(type) == type.cpu_type = "shared"
IsDedicated(type) == type.cpu_type = "dedicated"

\* (mutant of FilteredTypes) deprecated types are kept
FilteredTypesKeepDeprecated(types, location) ==
    LET Priced(type) == PricedIn(type, location)
    IN IF Truthy(location) THEN SelectSeq(types, Priced) ELSE types

\* the types left after the two filters
FilteredTypes(types, location) ==
    LET live == SelectSeq(types, NotDeprecated)
        Priced(type) == PricedIn(type, location)
    IN IF Truthy(location) THEN SelectSeq(live, Priced) ELSE live

\* (mutant of ServerTypeOptions) the shared group is pushed first
ServerTypeOptionsSharedFirst(types, location) ==
    IF Len(types) = 0 THEN << >>
    ELSE LET kept == FilteredTypes(types, location)
             sharedTypes == SortBy(SelectSeq(kept, IsShared), "name")
             dedicatedTypes == SortBy(SelectSeq(kept, IsDedicated), "name")
             Format(type) == formatServerType(type, location)
         IN (IF Len(sharedTypes) > 0
             THEN (IF Len(dedicatedTypes) > 0 THEN << sharedHeader >> ELSE << >>)
                  \o MapSeq(Format, sharedTypes)
             ELSE << >>)
            \o
            (IF Len(dedicatedTypes) > 0
             THEN << dedicatedHeader >> \o MapSeq(Format, dedicatedTypes)
             ELSE << >>)

\* (mutant of ServerTypeOptions) the shared header whenever a shared type exists
ServerTypeOptionsSymmetric(types, location) ==
    IF Len(types) = 0 THEN << >>
    ELSE LET kept == FilteredTypes(types, location)
             sharedTypes == SortBy(SelectSeq(kept, IsShared), "name")
             dedicatedTypes == SortBy(SelectSeq(kept, IsDedicated), "name")
             Format(type) == formatServerType(type, location)
         IN (IF Len(dedicatedTypes) > 0
             THEN << dedicatedHeader >> \o MapSeq(Format, dedicatedTypes)
             ELSE << >>)
            \o
            (IF Len(sharedTypes) > 0
             THEN << sharedHeader >> \o MapSeq(Format, sharedTypes)
             ELSE << >>)

\* (mutant of ServerTypeOptions) the shared types are left out when there
\* are dedicated ones
ServerTypeOptionsOneClass(types, location) ==
    IF Len(types) = 0 THEN << >>
    ELSE LET kept == FilteredTypes(types, location)
             sharedTypes == SortBy(SelectSeq(kept, IsShared), "name")
             dedicatedTypes == SortBy(SelectSeq(kept, IsDedicated), "name")
             Format(type) == formatServerType(type, location)
         IN IF Len(dedicatedTypes) > 0
            THEN << dedicatedHeader >> \o MapSeq(Format, dedicatedTypes)
            ELSE MapSeq(Format, sharedTypes)

\* getServerTypes after the accumulation: filters, the two sorted classes,
\* the headers
ServerTypeOptions(types, location) ==
    IF Len(types) = 0 THEN << >>
    ELSE LET kept == FilteredTypes(types, location)
             sharedTypes == SortBy(SelectSeq(kept, IsShared), "name")
             dedicatedTypes == SortBy(SelectSeq(kept, IsDedicated), "name")
             Format(type) == formatServerType(type, location)
         IN (IF Len(dedicatedTypes) > 0
             THEN << dedicatedHeader >> \o MapSeq(Format, dedicatedTypes)
             ELSE << >>)
            \o
            (IF Len(sharedTypes) > 0
             THEN (IF Len(dedicatedTypes) > 0 THEN << sharedHeader >> ELSE << >>)
                  \o MapSeq(Format, sharedTypes)
             ELSE << >>)

-----------------------------------------------------------------------------
(* What the provider's API holds: the items of each resource kind *)

Kinds == { "locations", "server_types", "images", "placement_groups",
           "networks", "firewalls", "ssh_keys" }

eu == << "e", "u", "-", "c", "e", "n", "t", "r", "a", "l" >>
us == << "u", "s", "-", "e", "a", "s", "t" >>

LocFsn1 == [name |-> fsn1, city |-> << "Falkenstein" >>, country |-> << "D", "E" >>,
            network_zone |-> eu]
LocHel1 == [name |-> << "h", "e", "l", "1" >>, city |-> << "Helsinki" >>,
            country |-> << "F", "I" >>, network_zone |-> eu]
LocAsh == [name |-> ash, city |-> << "Ashburn" >>, country |-> << "U", "S" >>,
           network_zone |-> us]
\* a location whose country code the table of getCountryName does not hold
LocXx1 == [name |-> << "x", "x", "1" >>, city |-> << "Nowhere" >>,
           country |-> << "X", "X" >>, network_zone |-> eu]

\* gross prices are in ten-thousandths of a euro ("3.2900" is 32900)
TypeCx11 == [name |-> cx11, deprecated |-> FALSE, architecture |-> << "x86" >>,
             cores |-> 1, memory |-> 2, disk |-> 20, cpu_type |-> "shared",
             prices |-> << [location |-> fsn1, gross |-> 32900],
                           [location |-> ash, gross |-> 41250] >>]
TypeCax11 == [name |-> << "c", "a", "x", "1", "1" >>, deprecated |-> FALSE,
              architecture |-> << "arm" >>, cores |-> 2, memory |-> 4, disk |-> 40,
              cpu_type |-> "shared",
              prices |-> << [location |-> fsn1, gross |-> 37950] >>]
TypeCcx13 == [name |-> ccx13, deprecated |-> FALSE, architecture |-> << "x86" >>,
              cores |-> 2, memory |-> 8, disk |-> 80, cpu_type |-> "dedicated",
              prices |-> << [location |-> ash, gross |-> 142700] >>]
TypeCx10 == [name |-> << "c", "x", "1", "0" >>, deprecated |-> TRUE,
             architecture |-> << "x86" >>, cores |-> 1, memory |-> 1, disk |-> 10,
             cpu_type |-> "shared",
             prices |-> << [location |-> fsn1, gross |-> 20000],
                           [location |-> ash, gross |-> 20000] >>]

ImgUbuntu == [id |-> 1, name |-> << "u", "b", "u", "n", "t", "u" >>,
              architecture |-> << "x86" >>, description |-> << "Ubuntu 24.04" >>]
ImgDebian == [id |-> 2, name |-> << "d", "e", "b", "i", "a", "n" >>,
              architecture |-> << "arm" >>, description |-> << "Debian 12" >>]

NetA == [id |-> 1, name |-> << "lan" >>, ip_range |-> << "10.0.0.0/16" >>]
NetB == [id |-> 12, name |-> << "dmz" >>, ip_range |-> << "10.1.0.0/16" >>]

NamedA == [id |-> 4, name |-> << "first" >>]
NamedB == [id |-> 30, name |-> << "second" >>]

\* the item arrays one page of a kind may hold
PageItems(kind) ==
    CASE kind = "locations" ->
            { << >>, << LocFsn1 >>, << LocAsh, LocHel1 >>, << LocXx1 >> }
      [] kind = "server_types" ->
            { << >>, << TypeCx11 >>, << TypeCcx13, TypeCx10 >>, << TypeCx11, TypeCax11 >> }
      [] kind = "images" ->
            { << >>, << ImgUbuntu >>, << ImgUbuntu, ImgDebian >> }
      [] kind = "networks" ->
            { << >>, << NetA >>, << NetB, NetA >> }
      [] OTHER ->
            { << >>, << NamedA >>, << NamedB, NamedA >> }

-----------------------------------------------------------------------------
(* The transport (fetch) and HetznerCloud.request *)

NetworkFailure == [net |-> FALSE]
Unparsable == [json |-> FALSE]
\* a JSON body: the kind's item array and meta.pagination.last_page, either
\* of them possibly absent
Json(items, last) == [json |-> TRUE, items |-> items, last_page |-> last]
Http(status, body) == [net |-> TRUE, status |-> status, body |-> body]

\* what fetch may answer to one request of a kind
Responses(kind) ==
    { NetworkFailure, Http(401, Unparsable), Http(500, Unparsable), Http(200, Unparsable) }
    \cup { Http(200, Json(items, last)) :
             items \in { Undefined } \cup { Arr(p) : p \in PageItems(kind) },
             last \in { Undefined } \cup { Num(n) : n \in 0..MaxPages } }

Throw(message) == [threw |-> TRUE, message |-> message]
Return(data) == [threw |-> FALSE, data |-> data]

\* request(): throws when fetch rejects, when !response.ok (with a message of
\* its own for 401) and when response.json() rejects; else returns the body
request(response) ==
    IF ~response.net THEN Throw("fetch failed")
    ELSE IF ~(response.status \in 200..299)
         THEN IF response.status = 401
              THEN Throw("Authentication failed. Please check your Hetzner Cloud API token.")
              ELSE Throw("HTTP error!")
    ELSE IF ~response.body.json THEN Throw("json")
    ELSE Return(response.body)

\* what a get* operation returns for the accumulated items
Finish(kind, items, location) ==
    CASE kind = "locations" -> LocationOptions(items)
      [] kind = "server_types" -> ServerTypeOptions(items, location)
      [] kind = "images" -> ImageOptions(items)
      [] kind = "networks" -> NetworkOptions(items)
      [] OTHER -> NamedOptions(items)

\* (mutant of CatchBlock) the operation rethrows what request threw
CatchRethrows == [pc |-> "threw", options |-> << >>]

\* (mutant of CatchBlock) the catch block returns what was accumulated
CatchReturnsAccumulated == [pc |-> "returned", options |-> Finish(fKind, acc, fLoc)]

\* "catch (error) { return []; }" of every get* operation
CatchBlock == [pc |-> "returned", options |-> << >>]

\* response?.<kind> || []
ItemsOf(data) == IF Truthy(data.items) THEN data.items.a ELSE << >>

\* (mutant of ContinueLoop) "page < last_page"
ContinueLoopStrict(data, nextPage) ==
    /\ Truthy(data.items) /\ Len(data.items.a) # 0
    /\ data.last_page.t = "number" /\ nextPage < data.last_page.n

\* (mutant of ContinueLoop) the condition without the test of the item array
ContinueLoopWhileBelowLast(data, nextPage) ==
    data.last_page.t = "number" /\ nextPage <= data.last_page.n

\* the do/while condition, page already incremented:
\* response?.<kind>?.length && page <= response?.meta?.pagination?.last_page
ContinueLoop(data, nextPage) ==
    /\ Truthy(data.items) /\ Len(data.items.a) # 0
    /\ data.last_page.t = "number" /\ nextPage <= data.last_page.n

-----------------------------------------------------------------------------
(* SpecFetch: one get* operation of HetznerCloud against a transport.       *)
(* fImpl tells the paginating class of hcloud.ts from the copy of the class  *)
(* that asks for one page only.                                              *)

FetchInit ==
    /\ pc = "fetch"
    /\ fImpl \in { "hcloud.ts", "part_001" }
    /\ fKind \in Kinds
    /\ fLoc \in IF fKind = "server_types" THEN { Undefined, Str(fsn1), Str(ash) }
                ELSE { Undefined }
    /\ page = 1 /\ acc = << >> /\ served = << >> /\ reqLog = << >>
    /\ fPc = "loop" /\ fResult = << >>
    /\ value = EmptyRecord /\ serverConfiguration = EmptyConfiguration
    /\ hist = [orig |-> EmptyConfiguration, op |-> "none"]
    /\ isValid = FALSE
    /\ syncingToProps = FALSE /\ syncingFromProps = FALSE
    /\ loadingData = FALSE /\ initialLoad = FALSE /\ hcloud = TRUE
    /\ hetznerOptions = EmptyOptions /\ emitted = "none"
    /\ queue = << >> /\ flushing = FALSE /\ conts = << >>
    /\ locOld = Undefined /\ fetches = << >> /\ initFetch = FALSE
    /\ initCalls = << >>

\* one turn of the do/while loop whose request throws: the catch block returns
RequestThrows ==
    /\ pc = "fetch" /\ fImpl = "hcloud.ts" /\ fPc = "loop"
    /\ \E response \in Responses(fKind) :
         /\ request(response).threw
         /\ served' = Append(served, response)
    /\ reqLog' = Append(reqLog, page)
    /\ page' = page + 1
    /\ fPc' = CatchBlock.pc
    /\ fResult' = CatchBlock.options
    /\ UNCHANGED << acc, fImpl, fKind, fLoc, pc >>
    /\ UNCHANGED compVars

\* one turn of the do/while loop whose request returns a body; when the
\* condition fails the operation transforms the accumulated items and returns
RequestReturns ==
    /\ pc = "fetch" /\ fImpl = "hcloud.ts" /\ fPc = "loop"
    /\ \E response \in Responses(fKind) :
         LET r == request(response) IN
         /\ ~r.threw
         /\ served' = Append(served, response)
         /\ acc' = acc \o ItemsOf(r.data)
         /\ IF ContinueLoop(r.data, page + 1)
            THEN fPc' = "loop" /\ fResult' = fResult
            ELSE fPc' = "returned" /\ fResult' = Finish(fKind, acc', fLoc)
    /\ reqLog' = Append(reqLog, page)
    /\ page' = page + 1
    /\ UNCHANGED << fImpl, fKind, fLoc, pc >>
    /\ UNCHANGED compVars

\* the get* operations of the copy without pagination: one request, without
\* a page parameter (logged as page 0)
RequestOnce ==
    /\ pc = "fetch" /\ fImpl = "part_001" /\ fPc = "loop"
    /\ \E response \in Responses(fKind) :
         LET r == request(response) IN
         /\ served' = Append(served, response)
         /\ IF r.threw
            THEN fPc' = CatchBlock.pc /\ fResult' = CatchBlock.options /\ acc' = acc
            ELSE /\ fPc' = "returned"
                 /\ acc' = ItemsOf(r.data)
                 /\ fResult' = IF ~Truthy(r.data.items) \/ r.data.items.t # "array"
                               THEN << >>
                               ELSE Finish(fKind, r.data.items.a, fLoc)
    /\ reqLog' = Append(reqLog, 0)
    /\ UNCHANGED << page, fImpl, fKind, fLoc, pc >>
    /\ UNCHANGED compVars

FetchNext == RequestThrows \/ RequestReturns \/ RequestOnce

SpecFetch == FetchInit /\ [][FetchNext]_vars

\* a response that is one of the failures: network failure, non-2xx status
\* (401 among them), unparsable body
IsFailure(response) ==
    \/ ~response.net
    \/ response.status < 200 \/ response.status > 299
    \/ ~response.body.json

\* the transport has so far served full pages only, each announcing N pages
WellServed(N) ==
    \A i \in 1..Len(served) :
        /\ ~IsFailure(served[i])
        /\ served[i].body.items.t = "array"
        /\ Len(served[i].body.items.a) > 0
        /\ served[i].body.last_page = Num(N)

ServedItems == Concat([i \in 1..Len(served) |-> served[i].body.items.a])

\* C1: against a transport serving N non-empty pages with last_page = N, the
\* paginating operation of every kind requests the pages 1..N in order, once
\* each, stops then, and returns the transform of all N pages' items
C1_PaginationExhaustive ==
    \A N \in 1..MaxPages :
        (pc = "fetch" /\ fImpl = "hcloud.ts" /\ served # << >> /\ WellServed(N)) =>
            /\ Len(served) <= N
            /\ reqLog = [i \in 1..Len(served) |-> i]
            /\ (fPc = "returned") <=> (Len(served) = N)
            /\ fPc = "returned" => fResult = Finish(fKind, ServedItems, fLoc)

\* C1 witness: an operation returned options after more than one page
C1_Witness ==
    /\ pc = "fetch" /\ fImpl = "hcloud.ts" /\ fPc = "returned"
    /\ Len(served) >= 2 /\ WellServed(Len(served))
    /\ Len(fResult) > Len(served[1].body.items.a)

\* C2: no operation lets an error out, and an operation one of whose
\* requests failed (whatever the failure, 401 included) returned the empty list
C2_NeverThrows ==
    pc = "fetch" =>
        /\ fPc # "threw"
        /\ (\E i \in 1..Len(served) : IsFailure(served[i])) =>
               (fPc = "returned" /\ fResult = << >>)

\* C2 witness: a 401 on the second page, after a first page with items
C2_Witness ==
    /\ pc = "fetch" /\ fPc = "returned" /\ Len(served) = 2
    /\ served[2] = Http(401, Unparsable)
    /\ acc # << >> /\ fResult = << >>

-----------------------------------------------------------------------------
(* Spec: the machine-config component under Vue's scheduler.                *)
(*                                                                          *)
(* A write that changes a watched value queues the watcher's job; jobs of   *)
(* one component run first in, first out, inside a flush; a function        *)
(* suspended at "await nextTick()" resumes when the flush has emptied the   *)
(* queue, before the next flush starts. The host may change props.value at  *)
(* any point between two jobs; a user edit comes through an enabled form    *)
(* field, when nothing is scheduled.                                        *)

\* what the provider holds while the component runs
ServerCatalog == << TypeCx11, TypeCax11, TypeCcx13, TypeCx10 >>
LocationCatalog == << LocFsn1, LocAsh >>

\* the record outbound sync writes for a complete configuration
RecordCanonical ==
    [serverType |-> Str(cx11), serverLocation |-> Str(fsn1), imageId |-> Str(<< "1" >>),
     placementGroup |-> Undefined, networks |-> Arr(<< Str(<< "1" >>) >>),
     firewalls |-> Arr(<< >>), existingKeyId |-> Undefined,
     usePrivateNetwork |-> Bool(TRUE), disablePublic |-> Bool(FALSE),
     disablePublicIpv4 |-> Bool(FALSE), disablePublicIpv6 |-> Bool(FALSE),
     additionalUserData |-> Str(<< >>), userDataFromFile |-> Bool(TRUE),
     serverLabel |-> Arr(<< >>)]

\* a record as another writer leaves it: numeric image id, absent lists and flags
RecordLoose ==
    [EmptyRecord EXCEPT !.serverType = Str(ccx13), !.serverLocation = Str(ash),
                        !.imageId = Num(2)]

\* a record with public networking disabled altogether and per protocol
RecordNoPublic ==
    [RecordCanonical EXCEPT !.disablePublic = Bool(TRUE),
                            !.disablePublicIpv4 = Bool(TRUE)]

\* the records the host hands to the component, at creation and later
ExternalRecords == { EmptyRecord, RecordCanonical, RecordLoose, RecordNoPublic }

\* queueJob: a job already waiting is not queued again
Enqueue(q, job) == IF \E i \in 1..Len(q) : q[i] = job THEN q ELSE Append(q, job)

\* the next flush starts only after the functions suspended at nextTick resumed
CanRun(job) ==
    /\ pc = "run"
    /\ queue # << >> /\ Head(queue) = job
    /\ flushing \/ conts = << >>

Idle == ~flushing /\ queue = << >> /\ conts = << >>

NoSettle == [settled |-> FALSE]

\* setup(): the immediate run of the props.value watcher, then the immediate
\* run of the serverConfiguration watcher (updateValue is withheld by the
\* inbound guard), then the creation of the serverLocation watcher
Init ==
    /\ pc = "setup"
    /\ value \in ExternalRecords
    /\ serverConfiguration = fromProps(EmptyConfiguration, value)
    /\ syncingFromProps = TRUE
    /\ syncingToProps = FALSE
    /\ conts = IF LabelsThrow(value) THEN << >> ELSE << "clearFrom" >>
    /\ isValid = Validate(serverConfiguration)
    /\ emitted = Bool(isValid)
    /\ locOld = serverConfiguration.serverLocation
    /\ loadingData = TRUE /\ initialLoad = TRUE /\ hcloud = FALSE
    /\ hetznerOptions = EmptyOptions
    /\ queue = << >> /\ flushing = TRUE
    /\ fetches = << >> /\ initFetch = FALSE /\ initCalls = << >>
    /\ hist = [nExt |-> 0, nEdit |-> 0, extDirty |-> FALSE, lost |-> FALSE,
               nLoc |-> 0, nFetch |-> 0, settle |-> NoSettle, growls |-> << >>]
    /\ fImpl = "none" /\ fKind = "none" /\ fLoc = Undefined /\ page = 0
    /\ acc = << >> /\ served = << >> /\ reqLog = << >> /\ fPc = "none"
    /\ fResult = << >>

\* onMounted without props.credentialId
MountedWithoutCredential ==
    /\ pc = "setup"
    /\ pc' = "run"
    /\ loadingData' = FALSE
    /\ initialLoad' = FALSE
    /\ UNCHANGED << value, serverConfiguration, isValid, syncingToProps,
                    syncingFromProps, hcloud, hetznerOptions, emitted, queue,
                    flushing, conts, locOld, fetches, initFetch, initCalls, hist >>
    /\ UNCHANGED fetchVars

\* onMounted with a credential: the HetznerCloud is created and the seven
\* operations are called inside Promise.all
MountedWithCredential ==
    /\ pc = "setup"
    /\ pc' = "run"
    /\ hcloud' = TRUE
    /\ initFetch' = TRUE
    /\ initCalls' = [kind \in Kinds |-> "pending"]
    /\ UNCHANGED << value, serverConfiguration, isValid, syncingToProps,
                    syncingFromProps, loadingData, initialLoad, hetznerOptions,
                    emitted, queue, flushing, conts, locOld, fetches, hist >>
    /\ UNCHANGED fetchVars

\* the kinds whose operation fails during the initial load
InitFailures == { { }, Kinds, { "server_types" }, { "locations" } }

\* what an operation of the running aggregator returns: the transform of the
\* whole catalog, or [] when a request failed
Fetched(kind, failed, items, location) ==
    IF kind \in failed THEN << >> ELSE Finish(kind, items, location)

\* what the provider holds of a kind while the component runs
CatalogOf(kind) ==
    CASE kind = "locations" -> LocationCatalog
      [] kind = "server_types" -> ServerCatalog
      [] kind = "images" -> << ImgUbuntu >>
      [] kind = "networks" -> << NetA >>
      [] OTHER -> << NamedA >>

\* (mutant of LoadedOptions) one failed call leaves every list empty
LoadedOptionsAllOrNothing(failed) ==
    IF failed # { } THEN EmptyOptions
    ELSE [locations |-> Fetched("locations", failed, CatalogOf("locations"), Undefined),
          serverTypes |-> Fetched("server_types", failed, CatalogOf("server_types"), Undefined),
          serverImages |-> Fetched("images", failed, CatalogOf("images"), Undefined),
          placementGroups |-> Fetched("placement_groups", failed, CatalogOf("placement_groups"), Undefined),
          networks |-> Fetched("networks", failed, CatalogOf("networks"), Undefined),
          sshKeys |-> Fetched("ssh_keys", failed, CatalogOf("ssh_keys"), Undefined),
          firewalls |-> Fetched("firewalls", failed, CatalogOf("firewalls"), Undefined)]

\* the seven assignments after "await Promise.all([...])": every list is the
\* value its own call resolved with
LoadedOptions(failed) ==
    [locations |-> Fetched("locations", failed, CatalogOf("locations"), Undefined),
     serverTypes |-> Fetched("server_types", failed, CatalogOf("server_types"), Undefined),
     serverImages |-> Fetched("images", failed, CatalogOf("images"), Undefined),
     placementGroups |-> Fetched("placement_groups", failed, CatalogOf("placement_groups"), Undefined),
     networks |-> Fetched("networks", failed, CatalogOf("networks"), Undefined),
     sshKeys |-> Fetched("ssh_keys", failed, CatalogOf("ssh_keys"), Undefined),
     firewalls |-> Fetched("firewalls", failed, CatalogOf("firewalls"), Undefined)]

\* the outcomes of the initial load: for each set of failing calls the seven
\* lists onMounted assigns
InitialLoads == { << failed, LoadedOptions(failed) >> : failed \in InitFailures }

\* "if (locations.length === 0) { ...dispatch('growl/warning', ...) }": the
\* notifications onMounted dispatches after the seven assignments. The catch
\* block of onMounted, with its 'growl/error', runs only when an operation
\* throws, which none does; the host supplies window.app.$store.
LoadGrowls(options) ==
    IF Len(options.locations) = 0 THEN << "growl/warning" >> ELSE << >>

\* onMounted after Promise.all: the calls still pending settle, the seven
\* lists are assigned, then the flags. The component does not observe the
\* calls one by one, so their settlement is taken with the continuation.
InitialLoadSettles ==
    /\ pc = "run" /\ initFetch /\ ~flushing
    /\ \E load \in InitialLoads : hetznerOptions' = load[2]
    /\ hist' = [hist EXCEPT !.growls = @ \o LoadGrowls(hetznerOptions')]
    /\ loadingData' = FALSE
    /\ initialLoad' = FALSE
    /\ initFetch' = FALSE
    /\ initCalls' = << >>
    /\ UNCHANGED << value, serverConfiguration, isValid, syncingToProps,
                    syncingFromProps, hcloud, emitted, queue, flushing, conts,
                    locOld, fetches, pc >>
    /\ UNCHANGED fetchVars

\* the host changes props.value: the deep props.value watcher is queued
ExternalChange ==
    /\ pc = "run" /\ hist.nExt < MaxExternal
    /\ \E record \in ExternalRecords :
         /\ record # value
         /\ value' = record
    /\ queue' = Enqueue(queue, "props")
    /\ hist' = [hist EXCEPT !.nExt = @ + 1, !.extDirty = TRUE]
    /\ UNCHANGED << serverConfiguration, isValid, syncingToProps, syncingFromProps,
                    loadingData, initialLoad, hcloud, hetznerOptions, emitted,
                    flushing, conts, locOld, fetches, initFetch, initCalls, pc >>
    /\ UNCHANGED fetchVars

\* the values of the options a select offers for choosing
Selectable(options) ==
    { options[i].value : i \in { j \in 1..Len(options) : "disabled" \notin DOMAIN options[j] } }

\* a checkbox turned over
Toggled(v) == Bool(~Truthy(v))

\* the field writes the form allows in the current state (v-model of the
\* template; the two checkbox conditions are the :disabled bindings)
Edits ==
    { << "serverLocation", v >> : v \in Selectable(hetznerOptions.locations) }
    \cup { << "serverType", v >> : v \in Selectable(hetznerOptions.serverTypes) }
    \cup { << "serverImage", v >> : v \in Selectable(hetznerOptions.serverImages) }
    \cup { << "networkIds", Arr(<< v >>) >> : v \in Selectable(hetznerOptions.networks) }
    \cup { << "networkIds", Arr(<< >>) >> }
    \cup { << "usePrivateNetwork", Toggled(serverConfiguration.usePrivateNetwork) >> }
    \cup { << "disablePublicNetwork", Toggled(serverConfiguration.disablePublicNetwork) >> :
             x \in IF Len(serverConfiguration.networkIds.a) # 0 THEN { 1 } ELSE { } }
    \cup { << "disablePublicIpv4", Toggled(serverConfiguration.disablePublicIpv4) >> :
             x \in IF ~Truthy(serverConfiguration.disablePublicNetwork) THEN { 1 } ELSE { } }

\* a user edit: one field of serverConfiguration is written through its form
\* field, which is enabled only while loadingData is false
UserEdit ==
    /\ pc = "run" /\ Idle /\ ~loadingData
    /\ hist.nEdit < MaxEdits
    /\ \E edit \in Edits :
         /\ serverConfiguration[edit[1]] # edit[2]
         /\ serverConfiguration' = [serverConfiguration EXCEPT ![edit[1]] = edit[2]]
         /\ queue' = IF edit[1] = "serverLocation"
                     THEN Enqueue(Enqueue(queue, "config"), "location")
                     ELSE Enqueue(queue, "config")
         /\ hist' = [hist EXCEPT !.nEdit = @ + 1,
                                 !.nLoc = IF edit[1] = "serverLocation" /\ hcloud
                                          THEN @ + 1 ELSE @]
    /\ UNCHANGED << value, isValid, syncingToProps, syncingFromProps, loadingData,
                    initialLoad, hcloud, hetznerOptions, emitted, flushing, conts,
                    locOld, fetches, initFetch, initCalls, pc >>
    /\ UNCHANGED fetchVars

\* (mutant of InboundSuppressed) the props.value watcher without its guard
InboundNeverSuppressed == FALSE

\* (mutant of InboundSuppressed) the watcher tests its own guard
InboundSuppressedByOwnGuard == syncingFromProps

\* "if (syncingToProps.value) return;"
InboundSuppressed == syncingToProps

\* the job of the props.value watcher: inbound sync up to "await nextTick()"
PropsWatcher ==
    /\ CanRun("props")
    /\ flushing' = TRUE
    /\ IF InboundSuppressed
       THEN /\ queue' = Tail(queue)
            /\ UNCHANGED << serverConfiguration, syncingFromProps, conts, hist >>
       ELSE /\ syncingFromProps' = TRUE
            /\ serverConfiguration' = fromProps(serverConfiguration, value)
            /\ conts' = IF LabelsThrow(value) THEN conts ELSE Append(conts, "clearFrom")
            /\ queue' = IF serverConfiguration'.serverLocation
                             # serverConfiguration.serverLocation
                         THEN Enqueue(Enqueue(Tail(queue), "config"), "location")
                         ELSE Enqueue(Tail(queue), "config")
            /\ hist' = [hist EXCEPT
                          !.extDirty = FALSE,
                          !.nLoc = IF hcloud /\ serverConfiguration'.serverLocation
                                                  # serverConfiguration.serverLocation
                                   THEN @ + 1 ELSE @]
    /\ UNCHANGED << value, isValid, syncingToProps, loadingData, initialLoad, hcloud,
                    hetznerOptions, emitted, locOld, fetches, initFetch, initCalls, pc >>
    /\ UNCHANGED fetchVars

\* (mutant of OutboundAllowed) the validation watcher without "!syncingFromProps"
OutboundAlwaysAllowed(valid) == valid

\* "if (valid && !syncingFromProps.value)"
OutboundAllowed(valid) == valid /\ ~syncingFromProps

\* the job of the serverConfiguration watcher: validation, the emit, and
\* updateValue up to its "await nextTick()"
ConfigWatcher ==
    /\ CanRun("config")
    /\ flushing' = TRUE
    /\ isValid' = Validate(serverConfiguration)
    /\ emitted' = Bool(isValid')
    /\ IF OutboundAllowed(isValid') /\ isValid'
       THEN /\ syncingToProps' = TRUE
            /\ value' = updateValue(serverConfiguration, value)
            /\ conts' = Append(conts, "clearTo")
            /\ queue' = Enqueue(Tail(queue), "props")
            /\ hist' = [hist EXCEPT !.lost = @ \/ hist.extDirty]
       ELSE /\ queue' = Tail(queue)
            /\ UNCHANGED << syncingToProps, value, conts, hist >>
    /\ UNCHANGED << serverConfiguration, syncingFromProps, loadingData, initialLoad,
                    hcloud, hetznerOptions, locOld, fetches, initFetch, initCalls, pc >>
    /\ UNCHANGED fetchVars

\* (mutant of HasAggregator) the callback without its test
HasAggregatorAlways == TRUE

\* "if (hcloud.value)" of the serverLocation watcher
HasAggregator == hcloud

\* the job of the serverLocation watcher: the callback runs when the location
\* differs from the one it saw last; with an aggregator it sets loadingData
\* and calls getServerTypes(newLocation)
LocationWatcher ==
    /\ CanRun("location")
    /\ flushing' = TRUE
    /\ queue' = Tail(queue)
    /\ locOld' = serverConfiguration.serverLocation
    /\ IF serverConfiguration.serverLocation # locOld /\ HasAggregator
       THEN /\ loadingData' = TRUE
            /\ fetches' = Append(fetches, serverConfiguration.serverLocation)
            /\ hist' = [hist EXCEPT !.nFetch = @ + 1]
       ELSE UNCHANGED << loadingData, fetches, hist >>
    /\ UNCHANGED << value, serverConfiguration, isValid, syncingToProps,
                    syncingFromProps, initialLoad, hcloud, hetznerOptions, emitted,
                    conts, initFetch, initCalls, pc >>
    /\ UNCHANGED fetchVars

\* flushJobs returns: the queue is empty
FlushEnd ==
    /\ pc = "run" /\ flushing /\ queue = << >>
    /\ flushing' = FALSE
    /\ UNCHANGED << value, serverConfiguration, isValid, syncingToProps,
                    syncingFromProps, loadingData, initialLoad, hcloud,
                    hetznerOptions, emitted, queue, conts, locOld, fetches,
                    initFetch, initCalls, pc, hist >>
    /\ UNCHANGED fetchVars

\* the props.value watcher resumes after nextTick: "syncingFromProps.value = false"
ResumeInbound ==
    /\ pc = "run" /\ ~flushing
    /\ conts # << >> /\ Head(conts) = "clearFrom"
    /\ conts' = Tail(conts)
    /\ syncingFromProps' = FALSE
    /\ UNCHANGED << value, serverConfiguration, isValid, syncingToProps, loadingData,
                    initialLoad, hcloud, hetznerOptions, emitted, queue, flushing,
                    locOld, fetches, initFetch, initCalls, pc, hist >>
    /\ UNCHANGED fetchVars

\* updateValue resumes after nextTick: "syncingToProps.value = false"
ResumeOutbound ==
    /\ pc = "run" /\ ~flushing
    /\ conts # << >> /\ Head(conts) = "clearTo"
    /\ conts' = Tail(conts)
    /\ syncingToProps' = FALSE
    /\ UNCHANGED << value, serverConfiguration, isValid, syncingFromProps,
                    loadingData, initialLoad, hcloud, hetznerOptions, emitted, queue,
                    flushing, locOld, fetches, initFetch, initCalls, pc, hist >>
    /\ UNCHANGED fetchVars

\* (mutant of TypeOffered) a selection is kept whatever the list holds
TypeOfferedAlways(options, type) == TRUE

\* hetznerOptions.value.serverTypes.some((type) => type.value === serverType)
TypeOffered(options, type) == \E i \in 1..Len(options) : options[i].value = type

\* (mutant of RefetchGrowls) a failed refetch dispatches 'growl/error'
RefetchGrowlsOnFailure(failed) ==
    IF failed THEN << "growl/error" >> ELSE << >>

\* the notifications of the serverLocation watcher: its catch block, with
\* 'growl/error', runs only when getServerTypes throws, and getServerTypes
\* returns [] where a request failed
RefetchGrowls(failed) == << >>

RemoveAt(q, i) == SubSeq(q, 1, i - 1) \o SubSeq(q, i + 1, Len(q))

\* the locations the serverLocation watcher may call getServerTypes with:
\* the ones of the records and of the location catalog, and none
RefetchLocations ==
    { Undefined } \cup { record.serverLocation : record \in ExternalRecords }
    \cup { Str(LocationCatalog[i].name) : i \in 1..Len(LocationCatalog) }

\* the outcomes of getServerTypes(location): the location, whether a request
\* failed, and the list the call resolves with
Refetches ==
    { << location, failed # { },
         Fetched("server_types", failed, ServerCatalog, location) >> :
        location \in RefetchLocations, failed \in { { }, { "server_types" } } }

\* (mutant of LoadingAfterRefetch) the flag is left as it is
LoadingAfterRefetchKept == loadingData

\* "finally { loadingData.value = false; }"
LoadingAfterRefetch == FALSE

\* a getServerTypes call of the serverLocation watcher settles: the list is
\* assigned, a serverType the list does not offer is cleared, and loadingData
\* is reset in the finally block
ServerTypesSettle ==
    /\ pc = "run" /\ ~flushing /\ fetches # << >>
    /\ \E i \in 1..Len(fetches), refetch \in Refetches :
         LET result == refetch[3]
             kept == TypeOffered(result, serverConfiguration.serverType)
         IN /\ refetch[1] = fetches[i]
            /\ hetznerOptions' = [hetznerOptions EXCEPT !.serverTypes = result]
            /\ serverConfiguration' =
                  IF kept THEN serverConfiguration
                  ELSE [serverConfiguration EXCEPT !.serverType = Undefined]
            /\ queue' = IF serverConfiguration' # serverConfiguration
                        THEN Enqueue(queue, "config") ELSE queue
            /\ fetches' = RemoveAt(fetches, i)
            /\ hist' = [hist EXCEPT
                          !.growls = @ \o RefetchGrowls(refetch[2]),
                          !.settle =
                          [settled |-> TRUE, location |-> fetches[i], result |-> result,
                           catalog |-> hetznerOptions'.serverTypes,
                           before |-> serverConfiguration.serverType,
                           after |-> serverConfiguration'.serverType,
                           failed |-> refetch[2],
                           growled |-> Len(RefetchGrowls(refetch[2]))]]
    /\ loadingData' = LoadingAfterRefetch
    /\ UNCHANGED << value, isValid, syncingToProps, syncingFromProps, initialLoad,
                    hcloud, emitted, flushing, conts, locOld, initFetch, initCalls, pc >>
    /\ UNCHANGED fetchVars

Next ==
    \/ MountedWithoutCredential
    \/ MountedWithCredential
    \/ InitialLoadSettles
    \/ ExternalChange
    \/ UserEdit
    \/ PropsWatcher
    \/ ConfigWatcher
    \/ LocationWatcher
    \/ FlushEnd
    \/ ResumeInbound
    \/ ResumeOutbound
    \/ ServerTypesSettle

Spec == Init /\ [][Next]_vars

-----------------------------------------------------------------------------
(* Claims about the component                                               *)

\* a field is set when it is present and neither false nor the empty string
IsSet(v) == ~IsNullish(v) /\ v # Bool(FALSE) /\ v # Str(<< >>)

\* the three rules of validity, as the specification words them
ValidityRules(cfg) ==
    /\ IsSet(cfg.serverType) /\ IsSet(cfg.serverImage) /\ IsSet(cfg.serverLocation)
    /\ (IsSet(cfg.disablePublicNetwork) \/ IsSet(cfg.disablePublicIpv4)
          \/ IsSet(cfg.disablePublicIpv6)) => IsSet(cfg.usePrivateNetwork)
    /\ IsSet(cfg.usePrivateNetwork) => Len(cfg.networkIds.a) >= 1

\* C4: once the validation watcher has run for the last change of
\* serverConfiguration, whether a user edit, an inbound sync or a cleared
\* server type made it, the last 'validationChanged' payload is true exactly
\* when (a) type, image and location are set, (b) no public-network switch is
\* set without usePrivateNetwork, and (c) usePrivateNetwork is not set
\* without a network id
C4_ValiditySignal ==
    (pc = "run" /\ ~(\E i \in 1..Len(queue) : queue[i] = "config"))
        => emitted = Bool(ValidityRules(serverConfiguration))

\* a user edit turned usePrivateNetwork on with no network selected: the
\* signal went to false by rule (c) alone
C4_Witness ==
    /\ pc = "run" /\ queue = << >> /\ hist.nEdit > 0
    /\ emitted = Bool(FALSE)
    /\ IsSet(serverConfiguration.serverType) /\ IsSet(serverConfiguration.serverImage)
    /\ IsSet(serverConfiguration.serverLocation)
    /\ IsSet(serverConfiguration.usePrivateNetwork)
    /\ Len(serverConfiguration.networkIds.a) = 0

\* updateValue has just set its guard and written the record
OutboundStarts == conts' = Append(conts, "clearTo")

\* C6: while the inbound guard syncingFromProps is set, no step starts an
\* outbound sync, although the configuration the inbound sync wrote may be
\* valid and the validation watcher runs
C6_NoNestedOutbound == [][syncingFromProps => ~OutboundStarts]_vars

\* an inbound sync of a changed record wrote a valid configuration, the
\* validation watcher has run and signalled true, and the guard is still set
C6_Witness ==
    /\ pc = "run" /\ hist.nExt > 0 /\ ~hist.extDirty
    /\ syncingFromProps /\ queue = << >>
    /\ isValid /\ emitted = Bool(TRUE)
    /\ value # updateValue(serverConfiguration, value)

\* C7: the inbound guard and the outbound guard are never both set
C7_MutualExclusion == ~(syncingFromProps /\ syncingToProps)

\* the record changed from outside while the outbound guard was set, and the
\* props.value watcher has run and left
C7_Witness ==
    /\ syncingToProps /\ ~syncingFromProps
    /\ hist.extDirty
    /\ ~(\E i \in 1..Len(queue) : queue[i] = "props")

\* neither guard is set and nothing is scheduled
NoSyncInFlight == Idle /\ pc = "run" /\ ~syncingFromProps /\ ~syncingToProps

\* C8: whenever no sync is in flight and serverConfiguration is valid, every
\* field of the external record equals the outbound encoding of the
\* corresponding field of serverConfiguration
C8_CrossRecordConsistency ==
    (NoSyncInFlight /\ ValidityRules(serverConfiguration))
        => value = updateValue(serverConfiguration, value)

\* C9: no outbound sync overwrites a record that was changed from outside
\* and from which serverConfiguration has not been re-derived since
C9_ExternalChangeNeverLost == ~hist.lost

\* C10: (1) once the serverLocation watcher has run, every change of the
\* location made while an aggregator exists has issued one getServerTypes
\* call; (2) when a call settles, the server type catalog is its result, and
\* the selected server type is cleared if no option of the result has that
\* value and kept otherwise
C10_DependentInvalidation ==
    /\ ~(\E i \in 1..Len(queue) : queue[i] = "location") => hist.nFetch = hist.nLoc
    /\ \A i \in 1..Len(fetches) : hcloud
    /\ hist.settle.settled =>
         /\ hist.settle.catalog = hist.settle.result
         /\ hist.settle.result \in
               { << >>, ServerTypeOptions(ServerCatalog, hist.settle.location) }
         /\ hist.settle.after =
               IF \E i \in 1..Len(hist.settle.result) :
                      hist.settle.result[i].value = hist.settle.before
               THEN hist.settle.before
               ELSE Undefined

\* a location change issued its call, which returned a list without the
\* selected type: the selection was cleared
C10_Witness ==
    /\ hist.nLoc > 0 /\ hist.nFetch = hist.nLoc
    /\ hist.settle.settled
    /\ hist.settle.result # << >>
    /\ hist.settle.before # Undefined
    /\ hist.settle.after = Undefined

\* C11: when two or more getServerTypes calls of the serverLocation watcher
\* have been issued and all have settled, the call that wrote the server type
\* catalog last is the one issued for the latest location change (locOld is
\* the location the watcher saw last, the argument of its latest call)
C11_StaleRefetchDiscarded ==
    (hcloud /\ fetches = << >> /\ hist.nFetch >= 2 /\ hist.settle.settled)
        => hist.settle.location = locOld

-----------------------------------------------------------------------------
(* SpecLoad: onMounted's initial load with the seven calls of Promise.all   *)
(* settling one by one, in any order.                                       *)

\* setup has run as in Init; onMounted has created the HetznerCloud, called
\* the seven operations and is suspended at "await Promise.all([...])"
LoadInit ==
    /\ pc = "load"
    /\ value \in ExternalRecords
    /\ serverConfiguration = fromProps(EmptyConfiguration, value)
    /\ isValid = Validate(serverConfiguration)
    /\ emitted = Bool(isValid)
    /\ syncingFromProps = TRUE /\ syncingToProps = FALSE
    /\ loadingData = TRUE /\ initialLoad = TRUE /\ hcloud = TRUE
    /\ hetznerOptions = EmptyOptions
    /\ queue = << >> /\ flushing = TRUE /\ conts = << "clearFrom" >>
    /\ locOld = serverConfiguration.serverLocation
    /\ fetches = << >> /\ initFetch = TRUE
    /\ initCalls = [kind \in Kinds |-> "pending"]
    /\ hist = [outcome |-> << >>]
    /\ fImpl = "none" /\ fKind = "none" /\ fLoc = Undefined /\ page = 0
    /\ acc = << >> /\ served = << >> /\ reqLog = << >> /\ fPc = "none"
    /\ fResult = << >>

\* one of the seven calls settles: a get* operation resolves with its list,
\* or with [] when a request failed; the component runs no code
LoadCallSettles ==
    /\ pc = "load"
    /\ \E kind \in Kinds, outcome \in { "ok", "failed" } :
         /\ initCalls[kind] = "pending"
         /\ initCalls' = [initCalls EXCEPT ![kind] = outcome]
    /\ UNCHANGED << value, serverConfiguration, isValid, syncingToProps,
                    syncingFromProps, loadingData, initialLoad, hcloud,
                    hetznerOptions, emitted, queue, flushing, conts, locOld,
                    fetches, initFetch, pc, hist >>
    /\ UNCHANGED fetchVars

\* the kinds whose call resolved with [] after a failure
FailedCalls == { kind \in Kinds : initCalls[kind] = "failed" }

\* onMounted resumes once every call has settled: the seven lists are
\* assigned, then the flags
LoadJoin ==
    /\ pc = "load" /\ initFetch
    /\ \A kind \in Kinds : initCalls[kind] # "pending"
    /\ hetznerOptions' = LoadedOptions(FailedCalls)
    /\ loadingData' = FALSE
    /\ initialLoad' = FALSE
    /\ initFetch' = FALSE
    /\ initCalls' = << >>
    /\ hist' = [outcome |-> initCalls]
    /\ pc' = "loaded"
    /\ UNCHANGED << value, serverConfiguration, isValid, syncingToProps,
                    syncingFromProps, hcloud, emitted, queue, flushing, conts,
                    locOld, fetches >>
    /\ UNCHANGED fetchVars

LoadNext == LoadCallSettles \/ LoadJoin

SpecLoad == LoadInit /\ [][LoadNext]_vars

\* the list of hetznerOptions a kind is assigned to
OptionsOf(options, kind) ==
    CASE kind = "locations" -> options.locations
      [] kind = "server_types" -> options.serverTypes
      [] kind = "images" -> options.serverImages
      [] kind = "placement_groups" -> options.placementGroups
      [] kind = "networks" -> options.networks
      [] kind = "ssh_keys" -> options.sshKeys
      [] kind = "firewalls" -> options.firewalls

C13_LoadingNotClearedEarly == (pc = "run" /\ initFetch) => loadingData

\* a step of the component, not a change of props.value by the host
InternalStep == hist'.nExt = hist.nExt

\* C14: (1) a step of the component changes the external record only by
\* starting updateValue from the validation watcher, in a state where
\* serverConfiguration satisfies the three rules and the inbound guard is not
\* set, and then the record is the encoding of serverConfiguration; (2) no
\* step that changes serverConfiguration writes the record itself; (3) while
\* serverConfiguration breaks a rule, no step of the component changes any
\* field of the record
C14_OutboundGated ==
    [][ pc = "run" =>
          /\ (InternalStep /\ value' # value) =>
                /\ OutboundStarts
                /\ ValidityRules(serverConfiguration)
                /\ ~syncingFromProps
                /\ serverConfiguration' = serverConfiguration
                /\ value' = updateValue(serverConfiguration, value)
          /\ (InternalStep /\ serverConfiguration' # serverConfiguration) => value' = value
          /\ (InternalStep /\ ~ValidityRules(serverConfiguration)) => value' = value
      ]_vars

\* the refetch for a new location cleared the selected server type, the
\* validation watcher has run and signalled false, and the record still
\* holds the type that was cleared
C14_Witness ==
    /\ pc = "run" /\ queue = << >>
    /\ hist.settle.settled
    /\ hist.settle.before # Undefined
    /\ hist.settle.after = Undefined
    /\ serverConfiguration.serverType = Undefined
    /\ emitted = Bool(FALSE) /\ ~isValid
    /\ value.serverType = hist.settle.before

-----------------------------------------------------------------------------
(* Claims about the lists the operations return (SpecFetch)                 *)

\* an operation returned without any of its requests failing
Succeeded(kind) ==
    /\ pc = "fetch" /\ fKind = kind /\ fPc = "returned"
    /\ \A i \in 1..Len(served) : ~IsFailure(served[i])

\* getServerTypes returned, with or without a failure
ServerTypesReturned == pc = "fetch" /\ fKind = "server_types" /\ fPc = "returned"

\* the accumulated server types that are not deprecated and, when a location
\* is given, have a price entry for it
LiveTypes ==
    { acc[i] : i \in { j \in 1..Len(acc) :
                         /\ ~acc[j].deprecated
                         /\ Truthy(fLoc) =>
                              \E k \in 1..Len(acc[j].prices) :
                                  Str(acc[j].prices[k].location) = fLoc } }

DedicatedClass == { type \in LiveTypes : type.cpu_type = "dedicated" }
SharedClass == { type \in LiveTypes : type.cpu_type = "shared" }

IsHeader(option) == "kind" \in DOMAIN option /\ option.kind = "group"

\* the result's i-th option is the option of a type of the class
EntryOf(class, i) ==
    /\ ~IsHeader(fResult[i])
    /\ \E type \in class : fResult[i].value = Str(type.name)

HasHeader(header) == \E i \in 1..Len(fResult) : fResult[i] = header

\* C15: in every list getServerTypes returns, every option of a dedicated
\* type precedes every option of a shared type, every group header has
\* disabled = true, and a header is present only when its class is not empty
C15_Grouping ==
    ServerTypesReturned =>
        /\ \A i, j \in 1..Len(fResult) :
              (EntryOf(DedicatedClass, i) /\ EntryOf(SharedClass, j)) => i < j
        /\ \A i \in 1..Len(fResult) :
              IsHeader(fResult[i]) =>
                 /\ "disabled" \in DOMAIN fResult[i]
                 /\ fResult[i].disabled = TRUE
                 /\ fResult[i] \in { dedicatedHeader, sharedHeader }
        /\ HasHeader(dedicatedHeader) => DedicatedClass # { }
        /\ HasHeader(sharedHeader) => SharedClass # { }

\* a list with options of both classes was returned
C15_Witness ==
    /\ Succeeded("server_types")
    /\ \E i, j \in 1..Len(fResult) :
          EntryOf(DedicatedClass, i) /\ EntryOf(SharedClass, j)
    /\ HasHeader(dedicatedHeader) /\ HasHeader(sharedHeader)

\* C16: the dedicated header is in the list exactly when the dedicated class
\* is not empty; the shared header exactly when the shared and the dedicated
\* class are both not empty
C16_AsymmetricHeaders ==
    Succeeded("server_types") =>
        /\ HasHeader(dedicatedHeader) <=> DedicatedClass # { }
        /\ HasHeader(sharedHeader) <=> (SharedClass # { } /\ DedicatedClass # { })

\* a list of shared types only: options, and no header at all
C16_Witness ==
    /\ Succeeded("server_types") /\ fImpl = "hcloud.ts"
    /\ SharedClass # { } /\ DedicatedClass = { }
    /\ Len(fResult) > 0
    /\ \A i \in 1..Len(fResult) : ~IsHeader(fResult[i])

\* C17: every option of a list getServerTypes returns, the headers aside, is
\* the option of a type that is not deprecated and, when a location is
\* given, has a price entry for it; of two options of one class the one
\* with the smaller name comes first
C17_Filtering ==
    ServerTypesReturned =>
        /\ \A i \in 1..Len(fResult) :
              ~IsHeader(fResult[i]) => EntryOf(LiveTypes, i)
        /\ \A i, j \in 1..Len(fResult) :
              /\ i < j
              /\ \/ EntryOf(DedicatedClass, i) /\ EntryOf(DedicatedClass, j)
                 \/ EntryOf(SharedClass, i) /\ EntryOf(SharedClass, j)
              => localeCompare(fResult[i].value.s, fResult[j].value.s) <= 0

\* a call with a location: a deprecated type and a type without a price for
\* the location were dropped, and cax11 was put before cx11
C17_Witness ==
    /\ Succeeded("server_types") /\ Truthy(fLoc)
    /\ \E i \in 1..Len(acc) : acc[i] = TypeCx10
    /\ \E i \in 1..Len(acc) : acc[i] = TypeCcx13 /\ ~PricedIn(TypeCcx13, fLoc)
    /\ \E i, j \in 1..Len(acc) : i < j /\ acc[i] = TypeCx11 /\ acc[j] = TypeCax11
    /\ \E i, j \in 1..Len(fResult) :
          /\ i < j
          /\ fResult[i].value = Str(TypeCax11.name)
          /\ fResult[j].value = Str(TypeCx11.name)

\* the static table of country names
CountryTable(code) ==
    CASE code = << "D", "E" >> -> << "G", "e", "r", "m", "a", "n", "y" >>
      [] code = << "F", "I" >> -> << "F", "i", "n", "l", "a", "n", "d" >>
      [] code = << "U", "S" >> -> << "U", "S", "A" >>
      [] code = << "S", "G" >> -> << "S", "i", "n", "g", "a", "p", "o", "r", "e" >>
      [] code = << "A", "U" >> -> << "A", "u", "s", "t", "r", "a", "l", "i", "a" >>
      [] OTHER -> code

\* the label the specification gives a location
LocationLabel(location) ==
    Str(toUpperCase(location.name) \o << " ", "-", " " >> \o location.city
        \o << ",", " " >> \o CountryTable(location.country))

\* C18: getLocations returns one option per accumulated location, ordered by
\* network zone and within a zone by name; the label is the upper-cased name,
\* the city and the country name of the table, or the code itself when the
\* table does not hold it
C18_LocationOrderAndLabel ==
    Succeeded("locations") =>
        /\ Len(fResult) = Len(acc)
        /\ \A k \in 1..Len(acc) :
              \E i \in 1..Len(fResult) :
                 /\ fResult[i].value = Str(acc[k].name)
                 /\ fResult[i].label = LocationLabel(acc[k])
        /\ \A i \in 1..Len(fResult) :
              \E k \in 1..Len(acc) : fResult[i].value = Str(acc[k].name)
        /\ \A i, j \in 1..Len(fResult) :
              i < j =>
                 LET zones == localeCompare(fResult[i].networkZone.s,
                                            fResult[j].networkZone.s)
                 IN \/ zones < 0
                    \/ /\ zones = 0
                       /\ localeCompare(fResult[i].value.s, fResult[j].value.s) <= 0

\* fsn1 (eu-central) was put before ash (us-east) with the label
\* "FSN1 - Falkenstein, Germany", and the code XX is in a label as it is
C18_Witness ==
    /\ Succeeded("locations")
    /\ \E i, j \in 1..Len(fResult) :
          /\ i < j
          /\ fResult[i].value = Str(fsn1)
          /\ fResult[i].label =
                Str(<< "F", "S", "N", "1", " ", "-", " ", "Falkenstein", ",", " ",
                       "G", "e", "r", "m", "a", "n", "y" >>)
          /\ fResult[j].value = Str(ash)
    /\ \E i \in 1..Len(fResult) :
          fResult[i].label =
             Str(<< "X", "X", "1", " ", "-", " ", "Nowhere", ",", " ", "X", "X" >>)

\* C19: no list an operation returns holds two options of the same value
C19_ValueUniqueness ==
    (pc = "fetch" /\ fPc = "returned") =>
        \A i, j \in 1..Len(fResult) : i # j => fResult[i].value # fResult[j].value

-----------------------------------------------------------------------------
(* SpecDecode: one run of the props.value watcher on an external record     *)
(* whose fields hold values of any JSON type.                               *)

one == << "1" >>
twelve == << "1", "2" >>

\* the external records the watcher is run on
DecodeRecords ==
    { [EmptyRecord EXCEPT
          !.serverType = type, !.serverLocation = type,
          !.imageId = image, !.placementGroup = group,
          !.existingKeyId = key,
          !.networks = ids, !.firewalls = ids,
          !.serverLabel = labels] :
        type \in { Undefined, Null, Str(cx11) },
        image \in { Undefined, Null, Str(twelve), Num(12), Str(<< "x" >>) },
        group \in { Undefined, Null, Str(one), Num(1) },
        key \in { Undefined, Null, Str(twelve), Num(12) },
        ids \in { Undefined, Null, Str(one), Arr(<< >>), Arr(<< Str(one), Num(12) >>) },
        labels \in { Undefined, Null, Arr(<< >>), Arr(<< Str(<< "a", "=", "a" >>) >>),
                     Str(<< "a", "=", "a" >>), Arr(<< Num(1) >>) } }

\* the component before the watcher's run
DecodeInit ==
    /\ pc = "decode"
    /\ value \in DecodeRecords
    /\ serverConfiguration = EmptyConfiguration
    /\ isValid = FALSE /\ emitted = "none"
    /\ syncingToProps = FALSE /\ syncingFromProps = FALSE
    /\ loadingData = TRUE /\ initialLoad = TRUE /\ hcloud = FALSE
    /\ hetznerOptions = EmptyOptions
    /\ queue = << >> /\ flushing = TRUE /\ conts = << >>
    /\ locOld = Undefined /\ fetches = << >> /\ initFetch = FALSE
    /\ initCalls = << >>
    /\ hist = [orig |-> EmptyConfiguration, op |-> "none"]
    /\ fImpl = "none" /\ fKind = "none" /\ fLoc = Undefined /\ page = 0
    /\ acc = << >> /\ served = << >> /\ reqLog = << >> /\ fPc = "none"
    /\ fResult = << >>

\* the watcher's callback up to "await nextTick()", or up to the TypeError
\* of line 195, which rejects the callback's promise
DecodeRuns ==
    /\ pc = "decode"
    /\ syncingFromProps' = TRUE
    /\ serverConfiguration' = fromProps(serverConfiguration, value)
    /\ IF LabelsThrow(value)
       THEN pc' = "threw" /\ conts' = conts
       ELSE pc' = "awaiting" /\ conts' = Append(conts, "clearFrom")
    /\ UNCHANGED << value, isValid, syncingToProps, loadingData, initialLoad, hcloud,
                    hetznerOptions, emitted, queue, flushing, locOld, fetches,
                    initFetch, initCalls, hist >>
    /\ UNCHANGED fetchVars

\* the callback resumes after nextTick and returns
DecodeResumes ==
    /\ pc = "awaiting"
    /\ pc' = "completed"
    /\ conts' = Tail(conts)
    /\ syncingFromProps' = FALSE
    /\ UNCHANGED << value, serverConfiguration, isValid, syncingToProps, loadingData,
                    initialLoad, hcloud, hetznerOptions, emitted, queue, flushing,
                    locOld, fetches, initFetch, initCalls, hist >>
    /\ UNCHANGED fetchVars

DecodeNext == DecodeRuns \/ DecodeResumes

SpecDecode == DecodeInit /\ [][DecodeNext]_vars

\* a value of JavaScript's type number (NaN is what Number gives a string
\* that is no numeral)
IsNumber(v) == v.t \in { "number", "NaN" }

\* the decode rule of an id: a string becomes a number, an absent or null
\* field becomes unset
IdDecoded(external, internal) ==
    /\ external.t = "string" => IsNumber(internal)
    /\ external = Str(twelve) => internal = Num(12)
    /\ IsNullish(external) <=> internal = Undefined

\* the decode rule of a list of ids: the empty list unless the field is a
\* list, whose strings become numbers
IdsDecoded(external, internal) ==
    /\ internal.t = "array"
    /\ external.t # "array" => internal.a = << >>
    /\ external.t = "array" =>
          /\ Len(internal.a) = Len(external.a)
          /\ \A i \in 1..Len(external.a) :
                external.a[i].t = "string" => IsNumber(internal.a[i])

\* C20: the run of the watcher on any external record ends without an error,
\* and after it string ids are numbers, absent or null type, location, image,
\* placement group and key are unset, and networks and firewalls are the
\* empty list unless the record holds a list
C20_DecodeTotal ==
    (pc \in { "threw", "awaiting", "completed" }) =>
        /\ pc # "threw"
        /\ IsNullish(value.serverType) <=> serverConfiguration.serverType = Undefined
        /\ IsNullish(value.serverLocation) <=> serverConfiguration.serverLocation = Undefined
        /\ IdDecoded(value.imageId, serverConfiguration.serverImage)
        /\ IdDecoded(value.placementGroup, serverConfiguration.placementGroupId)
        /\ IdDecoded(value.existingKeyId, serverConfiguration.sshKeyId)
        /\ IdsDecoded(value.networks, serverConfiguration.networkIds)
        /\ IdsDecoded(value.firewalls, serverConfiguration.firewallIds)

-----------------------------------------------------------------------------
(* Label decoding                                                            *)

\* the keys of a label mapping hold no '=' (a key that holds one cannot be
\* told from its value in "key=value", whatever the decoding)
PlainKeys(labels) ==
    \A i \in 1..Len(labels.e) :
        \A j \in 1..Len(labels.e[i][1]) : labels.e[i][1][j] # "="

\* C21 (as claimed): each serverLabel entry is split once, on its first '=':
\* a label mapping with plain keys that outbound sync encoded as "key=value"
\* strings is recovered unchanged by inbound sync, also when a value holds '='
C21_LabelSplitOnce ==
    (pc = "codec" /\ hist.op = "watch" /\ PlainKeys(hist.orig.serverLabels)) =>
        serverConfiguration.serverLabels = hist.orig.serverLabels

-----------------------------------------------------------------------------
(* Notifications                                                             *)

InitialLoadDone == pc = "run" /\ hcloud /\ ~initFetch

\* C22: an initial load that returned no locations (every failed load is
\* one) has dispatched one notification; a location-change refetch whose
\* fetch failed dispatched none and left the instance-type catalog empty; no
\* other notification is dispatched
C22_NotificationPolicy ==
    /\ (InitialLoadDone /\ hetznerOptions.locations = << >>) =>
           hist.growls = << "growl/warning" >>
    /\ (pc \in { "setup", "run" } /\ hist.settle.settled /\ hist.settle.failed) =>
           /\ hist.settle.growled = 0
           /\ hist.settle.catalog = << >>
    /\ pc \in { "setup", "run" } => Len(hist.growls) <= 1

\* C22 witness: the initial load failed and was notified once, and a refetch
\* after a location change failed as well
C22_Witness ==
    /\ InitialLoadDone
    /\ hetznerOptions.locations = << >>
    /\ hist.growls = << "growl/warning" >>
    /\ hist.settle.settled /\ hist.settle.failed

-----------------------------------------------------------------------------
(* The end of the page loop                                                  *)

\* the i-th response lets the loop go on to page i + 1
LetsContinue(i) ==
    /\ ~IsFailure(served[i])
    /\ served[i].body.items.t = "array" /\ Len(served[i].body.items.a) > 0
    /\ served[i].body.last_page.t = "number" /\ i + 1 <= served[i].body.last_page.n

\* every body served so far says last_page = N
FixedLastPage(N) ==
    \A i \in 1..Len(served) :
        (~IsFailure(served[i])) => served[i].body.last_page = Num(N)

Max(a, b) == IF a >= b THEN a ELSE b

\* C23: for every kind, a request is followed by another one only when its
\* response held a non-empty item array and a last_page not below the next
\* page number; the pages are requested in order from 1; against a transport
\* whose last_page is N throughout, no more than max(1, N) requests are made,
\* and the operation has returned once no further request is allowed
C23_PaginationStops ==
    (pc = "fetch" /\ fImpl = "hcloud.ts") =>
        /\ \A i \in 1..(Len(served) - 1) : LetsContinue(i)
        /\ reqLog = [i \in 1..Len(served) |-> i]
        /\ \A N \in 0..MaxPages : FixedLastPage(N) => Len(served) <= Max(1, N)
        /\ (served # << >> /\ ~LetsContinue(Len(served))) => fPc = "returned"

\* C23 witness: the loop went on after a first page and stopped at a second
\* response with items but without last_page
C23_Witness ==
    /\ pc = "fetch" /\ fImpl = "hcloud.ts" /\ fPc = "returned"
    /\ Len(served) = 2 /\ ~IsFailure(served[2])
    /\ served[2].body.items.t = "array" /\ Len(served[2].body.items.a) > 0
    /\ served[2].body.last_page = Undefined

-----------------------------------------------------------------------------
(* Echo of an outbound sync                                                  *)

\* the props.value watcher has just set its guard and written serverConfiguration
InboundStarts == conts' = Append(conts, "clearFrom")

\* the job of the props.value watcher is queued and no change of the host is
\* waiting for it: the writes of updateValue queued it
EchoQueued ==
    /\ \E i \in 1..Len(queue) : queue[i] = "props"
    /\ ~hist.extDirty

\* C24: from the step that sets the outbound guard to the step that clears
\* it no inbound sync starts, so that the props.value watcher overwrites no
\* field of serverConfiguration; and the run of the watcher that the writes
\* of updateValue queued always happens inside that interval
C24_NoEchoLoop ==
    [][/\ syncingToProps => ~InboundStarts
       /\ EchoQueued => syncingToProps
       /\ EchoQueued' => syncingToProps']_vars

\* C24 witness: after a user edit updateValue wrote a record whose decoding
\* differs from the configuration, the watcher ran inside the guard and left
\* the configuration alone
C24_Witness ==
    /\ pc = "run" /\ syncingToProps /\ hist.nEdit > 0 /\ ~hist.extDirty
    /\ ~(\E i \in 1..Len(queue) : queue[i] = "props")
    /\ value = updateValue(serverConfiguration, value)
    /\ fromProps(serverConfiguration, value) # serverConfiguration

-----------------------------------------------------------------------------
(* The partition of the instance types                                       *)

\* how often the type was accumulated, and how often the result offers it
TimesAccumulated(type) == Cardinality({ j \in 1..Len(acc) : acc[j] = type })
TimesOffered(type) ==
    Cardinality({ i \in 1..Len(fResult) :
                    /\ ~IsHeader(fResult[i])
                    /\ "disabled" \notin DOMAIN fResult[i]
                    /\ fResult[i].value = Str(type.name) })

-----------------------------------------------------------------------------
(* A failure after pages that succeeded                                      *)

\* the items of all the bodies served, in the order of the requests
EverythingServed == Concat([i \in 1..Len(served) |-> ItemsOf(served[i].body)])

\* C26: when the request for a page fails, no further request is made and
\* the operation returns the empty list, whatever the pages before it held;
\* a list that is not empty is the transform of everything that was served,
\* none of it a failure
C26_AllOrNothing ==
    (pc = "fetch" /\ fImpl = "hcloud.ts") =>
        /\ \A k \in 1..Len(served) :
              IsFailure(served[k]) =>
                 /\ k = Len(served)
                 /\ fPc = "returned"
                 /\ Len(fResult) = 0
        /\ (fPc = "returned" /\ Len(fResult) > 0) =>
              /\ \A k \in 1..Len(served) : ~IsFailure(served[k])
              /\ fResult = Finish(fKind, EverythingServed, fLoc)

\* C26 witness: two pages with items were accumulated, the request for the
\* third page found no network, and the operation returned the empty list
C26_Witness ==
    /\ pc = "fetch" /\ fImpl = "hcloud.ts" /\ fPc = "returned"
    /\ Len(served) = 3 /\ served[3] = NetworkFailure
    /\ Len(acc) >= 2 /\ Len(Finish(fKind, acc, fLoc)) > 0
    /\ fResult = << >>

-----------------------------------------------------------------------------
(* The instance-type catalog and the selected location                       *)

\* the initial load and every refetch have settled and no sync is in flight
Quiescent ==
    /\ pc = "run" /\ hcloud /\ ~initFetch /\ fetches = << >>
    /\ NoSyncInFlight

\* the option is one of a type the provider prices in the location
OfferedIn(option, location) ==
    \E i \in 1..Len(ServerCatalog) :
        /\ option.value = Str(ServerCatalog[i].name)
        /\ PricedIn(ServerCatalog[i], location)

\* C27 (as claimed): in a quiescent state with a location selected and a
\* catalog of instance types that is not empty, every selectable option of
\* the catalog is a type priced in the selected location
C27_CatalogMatchesLocation ==
    (/\ Quiescent
     /\ IsSet(serverConfiguration.serverLocation)
     /\ hetznerOptions.serverTypes # << >>) =>
        \A i \in 1..Len(hetznerOptions.serverTypes) :
            "disabled" \notin DOMAIN hetznerOptions.serverTypes[i] =>
                OfferedIn(hetznerOptions.serverTypes[i], serverConfiguration.serverLocation)

-----------------------------------------------------------------------------
(* A component without a credential                                          *)

\* mounted without props.credentialId: no aggregator, no call, nothing loaded
NothingRequested ==
    /\ ~loadingData /\ ~initialLoad
    /\ ~initFetch /\ initCalls = << >>
    /\ fetches = << >> /\ hist.nFetch = 0 /\ ~hist.settle.settled
    /\ hetznerOptions = EmptyOptions
    /\ hist.growls = << >>

\* C28: after a mount without a credential there is no aggregator for good,
\* both loading flags are clear, every catalog is empty and no call is ever
\* made, location changes included; the selected instance type changes only
\* by an inbound sync, which sets it to the record's
C28_NoCredentialNoRequest ==
    [][(pc' = "run" /\ ~hcloud') =>
          /\ NothingRequested'
          /\ pc = "run" => ~hcloud
          /\ serverConfiguration'.serverType # serverConfiguration.serverType =>
                /\ InboundStarts
                /\ serverConfiguration'.serverType = DecodeString(value.serverType)]_vars

\* C28 witness: without a credential the host replaced the record by one of
\* another location; the three watchers have run, and the instance type of
\* the record is selected
C28_Witness ==
    /\ pc = "run" /\ ~hcloud /\ Idle
    /\ hist.nExt = 1 /\ value = RecordLoose
    /\ locOld = Str(ash)
    /\ serverConfiguration.serverType = Str(ccx13)
    /\ NothingRequested

-----------------------------------------------------------------------------
(* The release of the guards                                                 *)

\* a callback suspended at "await nextTick()" is resumed by the scheduler's
\* microtask, and a callback that can run does run
SpecDecodeLive == SpecDecode /\ WF_vars(DecodeRuns) /\ WF_vars(DecodeResumes)

\* C29 (as claimed): a guard that an inbound or an outbound sync has set is
\* cleared again at some later time
C29_GuardsReleased ==
    /\ syncingFromProps ~> ~syncingFromProps
    /\ syncingToProps ~> ~syncingToProps

-----------------------------------------------------------------------------
(* The component with a scheduler that runs what is scheduled and with     *)
(* requests that all settle                                                 *)

\* the steps that are not the host's or the user's: onMounted, the jobs and
\* the resumptions of the scheduler, and the settling of the calls
Scheduled ==
    \/ MountedWithoutCredential
    \/ MountedWithCredential
    \/ PropsWatcher
    \/ ConfigWatcher
    \/ LocationWatcher
    \/ FlushEnd
    \/ ResumeInbound
    \/ ResumeOutbound
    \/ InitialLoadSettles
    \/ ServerTypesSettle

\* the component is created with a record without a location or with one
\* that has a location; the host may hand it any record later
LiveInit == Init /\ value \in { EmptyRecord, RecordLoose }

\* onMounted is called, queued jobs and suspended callbacks are run, and
\* every call of the aggregator settles; the host and the user are free
SpecLive == LiveInit /\ [][Next]_vars /\ WF_vars(Scheduled)

\* the callback of the serverLocation watcher has just called getServerTypes
RefetchStarts == fetches' = Append(fetches, serverConfiguration.serverLocation)

\* C30: when every call settles, loadingData, once set, becomes false at some
\* later time, whether the calls fail or not; and it is set again only by
\* the serverLocation watcher starting a refetch
C30_LoadingClears ==
    /\ loadingData ~> ~loadingData
    /\ [][(~loadingData /\ loadingData') => RefetchStarts]_vars

\* C30 witness: the initial load failed altogether, a refetch after a location
\* change failed as well, and the form is not loading
C30_Witness ==
    /\ InitialLoadDone /\ fetches = << >> /\ hist.nFetch >= 1
    /\ hetznerOptions = EmptyOptions
    /\ hist.settle.settled /\ hist.settle.failed
    /\ ~loadingData

====
